---- MODULE Spec2Model ----
(***************************************************************************)
(* Model of src/app.js: EngineManager (engine channel lifecycle, UCI line  *)
(* handling) and ChessApp (turn orchestration, pointer gestures).          *)
(*                                                                         *)
(* Text is modelled as sequences of one-character strings so that          *)
(* startsWith, split and substring are computed as the code computes them. *)
(* The rules engine (the chess.js library, not part of src/) is modelled   *)
(* as a reduced game behind the interface the code uses.                   *)
(***************************************************************************)
EXTENDS Integers, Sequences, FiniteSets, TLC

\* ------------------------------------------------------------------ bounds
\* number of worker error events delivered after the worker was terminated
MaxLateErrors == 1
\* number of pending random-move timers
MaxRandTimers == 1
\* number of pointerup listeners registered on the document at once
MaxUpListeners == 2
\* number of half-moves played since the last reset
MaxPlies == 3

\* --------------------------------------------------------- program constants
\* waitForStockfishModule gives up when attempts > MaxAttempts
MaxAttempts == 20
\* movetime sent with every go command
TimeLimit == 2500
\* depth used when the level selector does not parse to a non-zero number
DefaultDepth == 10

\* ------------------------------------------------------------------ text
Min(a, b) == IF a < b THEN a ELSE b

\* JavaScript String.prototype.substring(i, j) for 0 <= i <= j
Substring(s, i, j) == SubSeq(s, Min(i, Len(s)) + 1, Min(j, Len(s)))

\* JavaScript String.prototype.startsWith
StartsWith(s, p) == Len(s) >= Len(p) /\ SubSeq(s, 1, Len(p)) = p

\* position of the first space at or after index i, or Len(s)+1
RECURSIVE NextSpace(_, _)
NextSpace(s, i) ==
    IF i > Len(s) THEN Len(s) + 1
    ELSE IF s[i] = " " THEN i
    ELSE NextSpace(s, i + 1)

\* the value JavaScript calls undefined
Undefined == <<"undefined">>

\* line.split(' ')[1]: the second space-separated field, undefined if none
SplitSecond(s) ==
    LET p == NextSpace(s, 1)
    IN  IF p > Len(s) THEN Undefined
        ELSE SubSeq(s, p + 1, NextSpace(s, p + 1) - 1)

\* JavaScript truthiness of a string-or-undefined value
Truthy(x) == x # Undefined /\ x # <<>>

BESTMOVE == <<"b", "e", "s", "t", "m", "o", "v", "e">>
UCIOK == <<"u", "c", "i", "o", "k">>
NONE == <<"(", "n", "o", "n", "e", ")">>

\* ---------------------------------------------------------- rules engine
\* The library's interface on a reduced game: one file, one piece a side,
\* a piece steps one square along the file onto an empty square or onto an
\* enemy piece (a capture); the side to move loses when it has no move.
Files == <<"a">>
Ranks == <<"1", "2", "3", "4">>
NFiles == Len(Files)
NRanks == Len(Ranks)
Sq(fi, ri) == <<Files[fi], Ranks[ri]>>
Squares == {Sq(fi, ri) : fi \in 1..NFiles, ri \in 1..NRanks}
FileIdx(s) == CHOOSE fi \in 1..NFiles : Files[fi] = s[1]
RankIdx(s) == CHOOSE ri \in 1..NRanks : Ranks[ri] = s[2]

NoPiece == [color |-> "", type |-> ""]
Piece(c) == [color |-> c, type |-> "r"]
Other(c) == IF c = "w" THEN "b" ELSE "w"

StartBoard ==
    [s \in Squares |->
        IF s[2] = Ranks[1] THEN Piece("w")
        ELSE IF s[2] = Ranks[NRanks] THEN Piece("b")
        ELSE NoPiece]

\* new Chess()
NewChess == [board |-> StartBoard, turn |-> "w", history |-> <<>>]

\* game.reset()
Reset(g) == NewChess

\* game.get(square)
Get(g, s) == g.board[s]

\* game.turn()
Turn(g) == g.turn

\* game.fen(): the serialized position (placement and side to move)
Fen(g) == [board |-> g.board, turn |-> g.turn]

\* the moves of the piece on square s for the side to move
PieceMoves(g, s) ==
    LET fi == FileIdx(s)
        ri == RankIdx(s)
        targets == {Sq(fi, nr) : nr \in {r \in {ri - 1, ri + 1} :
                       /\ r \in 1..NRanks
                       /\ g.board[Sq(fi, r)].color # g.turn}}
    IN  {[from |-> s, to |-> t, promotion |-> <<>>] : t \in targets}

\* game.moves(): the legal moves of the side to move
Moves(g) ==
    UNION {PieceMoves(g, s) : s \in {q \in Squares : g.board[q].color = g.turn}}

\* game.game_over()
GameOver(g) == Moves(g) = {}

\* the position after a legal move
Apply(g, m) ==
    [board |-> [g.board EXCEPT ![m.from] = NoPiece, ![m.to] = g.board[m.from]],
     turn |-> Other(g.turn),
     history |-> Append(g.history, Fen(g))]

\* the legal moves game.move({from, to, promotion}) accepts for its argument:
\* a move without promotion matches whatever promotion is passed
Matching(g, from, to, promotion) ==
    {m \in Moves(g) : m.from = from /\ m.to = to
                      /\ (m.promotion = <<>> \/ m.promotion = promotion)}

\* game.move({from, to, promotion}): the position after it; unchanged when rejected
Move(g, from, to, promotion) ==
    LET ms == Matching(g, from, to, promotion)
    IN  IF ms = {} THEN g ELSE Apply(g, CHOOSE m \in ms : TRUE)

\* game.undo()
Undo(g) ==
    IF g.history = <<>> THEN g
    ELSE [board |-> g.history[Len(g.history)].board,
          turn |-> g.history[Len(g.history)].turn,
          history |-> SubSeq(g.history, 1, Len(g.history) - 1)]

\* the move token the engine protocol uses for a move: from, to, promotion
Token(m) == m.from \o m.to \o m.promotion


\* ------------------------------------------------------------ environment
\* the values of the difficulty selector
LevelValues == {"1", ""}

\* parseInt of a selector value
ParseInt(v) ==
    IF v = "1" THEN [nan |-> FALSE, val |-> 1] ELSE [nan |-> TRUE, val |-> 0]

\* what the page has loaded of the in-process engine:
\*   none  - neither StockfishModule nor Module is defined
\*   ccall - StockfishModule is defined and exports ccall
\*   asm   - Module is defined and window.onmessage is a function
\*   bare  - Module is defined, no ccall and no window.onmessage
ModuleKinds == {"ccall", "asm", "bare"}

INFO == <<"i", "n", "f", "o", " ", "d", "e", "p", "t", "h">>
SP == <<" ">>

\* move tokens an engine line may carry in position g
Tokens(g) ==
    {Token(m) : m \in Moves(g)}
        \cup {<<"a", "4", "a", "3">>, <<"a", "1", "a", "3">>, NONE}

\* the lines a reply channel may deliver in position g
Lines(g) ==
    {UCIOK, INFO, BESTMOVE, BESTMOVE \o SP}
        \cup {BESTMOVE \o SP \o t : t \in Tokens(g)}
        \cup {BESTMOVE \o SP \o t \o SP \o <<"p", "o", "n", "d", "e", "r">> :
                 t \in {Token(m) : m \in Moves(g)}}
        \cup {BESTMOVE \o <<"x">> \o SP \o t : t \in {Token(m) : m \in Moves(g)}}

NoSquare == <<>>

\* ------------------------------------------------------------------ state
VARIABLES
    engine,           \* EngineManager.engine: "null" or "worker"
    isWorker,         \* EngineManager.isWorker
    isReady,          \* EngineManager.isReady
    status,           \* text last passed to statusCallback
    readyTimer,       \* the 2000 ms safety timeout is armed
    polls,            \* attempts counter of every running module poll
    winListeners,     \* window 'message' listeners registered
    moduleKind,       \* "none" or a member of ModuleKinds
    workerCreated,    \* new Worker(...) returned a handle
    workerErrors,     \* late error events delivered to engine.onerror
    switchCount,      \* calls of switchToMainThread
    readyCalls,       \* calls of onReadyCallback
    game,             \* ChessApp.game
    isThinking,       \* ChessApp.isThinking
    selectedSquare,   \* ChessApp.selectedSquare
    isDragging,       \* ChessApp.isDragging
    dragStartSquare,  \* ChessApp.dragStartSquare
    upListeners,      \* pointerup listeners registered on the document
    newestLive,       \* this.dragEndHandler is still registered
    randTimers,       \* pending makeRandomMove timers
    sent,             \* commands the last step delivered to an engine channel
    dropped,          \* commands the last step passed to sendCommand undelivered
    submitted,        \* number of moves the last step passed to game.move
    ev                \* the last step: handler, kind of argument, and
                      \* isThinking and isReady as they were before it

vars == <<engine, isWorker, isReady, status, readyTimer, polls, winListeners,
          moduleKind, workerCreated, workerErrors, switchCount, readyCalls,
          game, isThinking, selectedSquare, isDragging, dragStartSquare,
          upListeners, newestLive, randTimers, sent, dropped, submitted, ev>>

\* the program state as one record, with the outputs of a step cleared;
\* lv is levelSelect.value, which the user may have changed before the step
State(lv) ==
    [engine |-> engine, isWorker |-> isWorker, isReady |-> isReady,
     status |-> status, readyTimer |-> readyTimer, polls |-> polls,
     winListeners |-> winListeners, moduleKind |-> moduleKind,
     switchCount |-> switchCount, readyCalls |-> readyCalls, level |-> lv,
     game |-> game, isThinking |-> isThinking,
     selectedSquare |-> selectedSquare, isDragging |-> isDragging,
     dragStartSquare |-> dragStartSquare, upListeners |-> upListeners,
     newestLive |-> newestLive, randTimers |-> randTimers,
     sent |-> <<>>, dropped |-> <<>>, submitted |-> 0]

\* the state for the handlers that do not read the selector
Cur == State("1")

Set(s, e) ==
    /\ engine' = s.engine
    /\ isWorker' = s.isWorker
    /\ isReady' = s.isReady
    /\ status' = s.status
    /\ readyTimer' = s.readyTimer
    /\ polls' = s.polls
    /\ winListeners' = s.winListeners
    /\ moduleKind' = s.moduleKind
    /\ switchCount' = s.switchCount
    /\ readyCalls' = s.readyCalls
    /\ game' = s.game
    /\ isThinking' = s.isThinking
    /\ selectedSquare' = s.selectedSquare
    /\ isDragging' = s.isDragging
    /\ dragStartSquare' = s.dragStartSquare
    /\ upListeners' = s.upListeners
    /\ newestLive' = s.newestLive
    /\ randTimers' = s.randTimers
    /\ sent' = s.sent
    /\ dropped' = s.dropped
    /\ submitted' = s.submitted
    /\ ev' = [op |-> e[1], arg |-> e[2], thinking |-> isThinking,
              ready |-> isReady]
    /\ s.randTimers <= MaxRandTimers
    /\ s.upListeners <= MaxUpListeners
    /\ Len(s.game.history) <= MaxPlies

\* ---------------------------------------------------------- EngineManager
Cmd(n) == [name |-> n]
PositionCmd(fen) == [name |-> "position fen", fen |-> fen]
GoCmd(depth, ms) == [name |-> "go depth", depth |-> depth, movetime |-> ms]

\* sendCommand without its readiness guard
SendCommandUnguarded(s, cmd) ==
    IF s.isWorker
    THEN [s EXCEPT !.sent = Append(@,
             [cmd |-> cmd,
              via |-> IF s.engine = "worker" THEN "worker" ELSE "null"])]
    ELSE IF s.moduleKind = "ccall"
    THEN [s EXCEPT !.sent = Append(@, [cmd |-> cmd, via |-> "ccall"])]
    ELSE IF s.moduleKind = "asm"
    THEN [s EXCEPT !.sent = Append(@, [cmd |-> cmd, via |-> "onmessage"])]
    ELSE [s EXCEPT !.dropped = Append(@, [cmd |-> cmd, why |-> "no channel"])]

\* sendCommand(cmd)
SendCommand(s, cmd) ==
    IF ~s.isReady /\ cmd.name # "uci"
    THEN [s EXCEPT !.dropped = Append(@, [cmd |-> cmd, why |-> "not ready"])]
    ELSE IF s.isWorker
    THEN [s EXCEPT !.sent = Append(@,
             [cmd |-> cmd,
              via |-> IF s.engine = "worker" THEN "worker" ELSE "null"])]
    ELSE IF s.moduleKind = "ccall"
    THEN [s EXCEPT !.sent = Append(@, [cmd |-> cmd, via |-> "ccall"])]
    ELSE IF s.moduleKind = "asm"
    THEN [s EXCEPT !.sent = Append(@, [cmd |-> cmd, via |-> "onmessage"])]
    ELSE [s EXCEPT !.dropped = Append(@, [cmd |-> cmd, why |-> "no channel"])]

\* initMainThread()
InitMainThread(s) ==
    SendCommand([s EXCEPT !.winListeners = @ + 1], Cmd("uci"))

\* waitForStockfishModule(): starts one poll with attempts = 0
WaitForStockfishModule(s) == [s EXCEPT !.polls = Append(@, 0)]

\* switchToMainThread leaving isWorker as it was
SwitchToMainThreadKeepsWorker(s) ==
    WaitForStockfishModule(
        [s EXCEPT !.engine = IF s.isWorker /\ s.engine # "null"
                             THEN "null" ELSE @,
                  !.status = "Loading Main Thread Engine...",
                  !.switchCount = @ + 1])

\* switchToMainThread()
SwitchToMainThread(s) ==
    WaitForStockfishModule(
        [s EXCEPT !.engine = IF s.isWorker /\ s.engine # "null"
                             THEN "null" ELSE @,
                  !.isWorker = FALSE,
                  !.status = "Loading Main Thread Engine...",
                  !.switchCount = @ + 1])

RemoveAt(q, i) == SubSeq(q, 1, i - 1) \o SubSeq(q, i + 1, Len(q))

\* one firing of the setInterval callback of poll i
PollCallback(s, i) ==
    LET attempts == s.polls[i] + 1
    IN  IF s.moduleKind # "none"
        THEN InitMainThread([s EXCEPT !.polls = RemoveAt(@, i)])
        ELSE IF attempts > MaxAttempts
        THEN [s EXCEPT !.polls = RemoveAt(@, i),
                       !.status = "Engine Load Failed (Random Moves Only)"]
        ELSE [s EXCEPT !.polls[i] = attempts]

\* the callback of the 2000 ms safety timeout
ReadyTimeout(s) ==
    LET t == [s EXCEPT !.readyTimer = FALSE]
    IN  IF ~t.isReady /\ t.isWorker THEN SwitchToMainThread(t) ELSE t


\* --------------------------------------------------------------- ChessApp
playerColor == "w"

\* triggerAi sending the search request before the position
TriggerAiGoFirst(s) ==
    IF GameOver(s.game) THEN s
    ELSE LET t == [s EXCEPT !.isThinking = TRUE]
             parsed == ParseInt(t.level)
             depth == IF parsed.nan \/ parsed.val = 0 THEN DefaultDepth
                      ELSE parsed.val
         IN  IF t.isReady
             THEN SendCommand(SendCommand(t, GoCmd(depth, TimeLimit)),
                              PositionCmd(Fen(t.game)))
             ELSE [t EXCEPT !.randTimers = @ + 1]

\* triggerAi setting isThinking only when the adapter is ready
TriggerAiThinksWhenReady(s) ==
    IF GameOver(s.game) THEN s
    ELSE LET parsed == ParseInt(s.level)
             depth == IF parsed.nan \/ parsed.val = 0 THEN DefaultDepth
                      ELSE parsed.val
         IN  IF s.isReady
             THEN SendCommand(SendCommand([s EXCEPT !.isThinking = TRUE],
                                          PositionCmd(Fen(s.game))),
                              GoCmd(depth, TimeLimit))
             ELSE [s EXCEPT !.randTimers = @ + 1]

\* triggerAi()
TriggerAi(s) ==
    IF GameOver(s.game) THEN s
    ELSE LET t == [s EXCEPT !.isThinking = TRUE]
             parsed == ParseInt(t.level)
             depth == IF parsed.nan \/ parsed.val = 0 THEN DefaultDepth
                      ELSE parsed.val
         IN  IF t.isReady
             THEN SendCommand(SendCommand(t, PositionCmd(Fen(t.game))),
                              GoCmd(depth, TimeLimit))
             ELSE [t EXCEPT !.randTimers = @ + 1]

\* tryMove(from, to) returns true
TryMoveOk(s, from, to) == Matching(s.game, from, to, <<"q">>) # {}

\* tryMove calling triggerAi whether or not the rules engine took the move
TryMoveAlwaysTriggers(s, from, to) ==
    TriggerAi([s EXCEPT !.game = Move(@, from, to, <<"q">>),
                        !.submitted = @ + 1])

\* tryMove(from, to)
TryMove(s, from, to) ==
    LET t == [s EXCEPT !.game = Move(@, from, to, <<"q">>),
                       !.submitted = @ + 1]
    IN  IF TryMoveOk(s, from, to) THEN TriggerAi(t) ELSE t

\* the decoding of a move token without its promotion character
DecodeNoPromotion(bestMove) ==
    [from |-> Substring(bestMove, 0, 2),
     to |-> Substring(bestMove, 2, 4),
     promotion |-> <<>>]

\* the decoding of a move token in handleAiMove
Decode(bestMove) ==
    [from |-> Substring(bestMove, 0, 2),
     to |-> Substring(bestMove, 2, 4),
     promotion |-> Substring(bestMove, 4, 5)]

\* handleAiMove without its isThinking guard
HandleAiMoveUnguarded(s, bestMove) ==
    IF Truthy(bestMove) /\ bestMove # NONE
    THEN [s EXCEPT !.game = Move(@, Substring(bestMove, 0, 2),
                                 Substring(bestMove, 2, 4),
                                 Substring(bestMove, 4, 5)),
                   !.submitted = @ + 1,
                   !.isThinking = FALSE]
    ELSE [s EXCEPT !.isThinking = FALSE]

\* handleAiMove(bestMove)
HandleAiMove(s, bestMove) ==
    IF ~s.isThinking THEN s
    ELSE IF Truthy(bestMove) /\ bestMove # NONE
    THEN LET d == Decode(bestMove)
         IN  [s EXCEPT !.game = Move(@, d.from, d.to, d.promotion),
                       !.submitted = @ + 1,
                       !.isThinking = FALSE]
    ELSE [s EXCEPT !.isThinking = FALSE]

\* makeRandomMove without its reset of isThinking
MakeRandomMoveKeepsThinking(s, mk) ==
    IF Moves(s.game) # {}
    THEN [s EXCEPT !.game = Apply(@, mk), !.submitted = @ + 1]
    ELSE s

\* makeRandomMove(), mk the element Math.random selects from game.moves()
MakeRandomMove(s, mk) ==
    IF Moves(s.game) # {}
    THEN [s EXCEPT !.game = Apply(@, mk),
                   !.submitted = @ + 1,
                   !.isThinking = FALSE]
    ELSE [s EXCEPT !.isThinking = FALSE]

\* newGame resetting the turn state whatever isThinking is
NewGameUnconditional(s) ==
    SendCommand(
        SendCommand([s EXCEPT !.game = Reset(@),
                              !.selectedSquare = NoSquare,
                              !.isThinking = FALSE],
                    Cmd("stop")),
        Cmd("ucinewgame"))

\* newGame()
NewGame(s) ==
    IF s.isThinking THEN s
    ELSE SendCommand(
             SendCommand([s EXCEPT !.game = Reset(@),
                                   !.selectedSquare = NoSquare],
                         Cmd("stop")),
             Cmd("ucinewgame"))

\* undoMove resetting the turn state whatever isThinking is
UndoMoveUnconditional(s) ==
    [s EXCEPT !.game = Undo(Undo(@)), !.isThinking = FALSE]

\* undoMove()
UndoMove(s) ==
    IF s.isThinking THEN s
    ELSE [s EXCEPT !.game = Undo(Undo(@))]

\* handlePointerDown(e, square)
HandlePointerDown(s, square) ==
    IF s.isThinking THEN s
    ELSE LET try == s.selectedSquare # NoSquare /\ ~s.isDragging
             moved == try /\ TryMoveOk(s, s.selectedSquare, square)
             t == IF try THEN TryMove(s, s.selectedSquare, square) ELSE s
         IN  IF moved THEN [t EXCEPT !.selectedSquare = NoSquare]
             ELSE IF Get(t.game, square).color = playerColor
             THEN [t EXCEPT !.isDragging = TRUE,
                            !.dragStartSquare = square,
                            !.selectedSquare = square,
                            !.upListeners = @ + 1,
                            !.newestLive = TRUE]
             ELSE [t EXCEPT !.selectedSquare = NoSquare]

\* handlePointerUp(e), target the square under the pointer or NoSquare
HandlePointerUp(s, target) ==
    LET t == [s EXCEPT !.isDragging = FALSE,
                       !.upListeners = IF s.newestLive THEN @ - 1 ELSE @,
                       !.newestLive = FALSE]
    IN  IF target # NoSquare /\ target # t.dragStartSquare
        THEN TryMove(t, t.dragStartSquare, target)
        ELSE t

\* handleMessage without the guard against a repeated uciok
HandleMessageRepeatsReady(s, line) ==
    LET t == IF line = UCIOK
             THEN [s EXCEPT !.isReady = TRUE,
                            !.status = IF s.isWorker
                                       THEN "Stockfish Ready (Worker)"
                                       ELSE "Stockfish Ready (Main)",
                            !.readyCalls = @ + 1]
             ELSE s
    IN  IF line # <<>> /\ StartsWith(line, BESTMOVE)
        THEN HandleAiMove(t, SplitSecond(line))
        ELSE t

\* handleMessage(line)
HandleMessage(s, line) ==
    LET t == IF line = UCIOK /\ ~s.isReady
             THEN [s EXCEPT !.isReady = TRUE,
                            !.status = IF s.isWorker
                                       THEN "Stockfish Ready (Worker)"
                                       ELSE "Stockfish Ready (Main)",
                            !.readyCalls = @ + 1]
             ELSE s
    IN  IF line # <<>> /\ StartsWith(line, BESTMOVE)
        THEN HandleAiMove(t, SplitSecond(line))
        ELSE t

\* one window 'message' event: each of the n registered listeners calls
\* handleMessage with the line
RECURSIVE DispatchMessage(_, _, _)
DispatchMessage(n, s, line) ==
    IF n = 0 THEN s ELSE DispatchMessage(n - 1, HandleMessage(s, line), line)

\* one pointerup event: each of the n listeners invoked calls handlePointerUp
RECURSIVE DispatchPointerUp(_, _, _)
DispatchPointerUp(n, s, target) ==
    IF n = 0 THEN s
    ELSE DispatchPointerUp(n - 1, HandlePointerUp(s, target), target)

\* the pointerup listeners one pointerup event invokes: listeners run in the
\* order registered, and one removed by an earlier listener is skipped
UpInvocations(s) ==
    IF s.newestLive /\ s.upListeners > 1 THEN s.upListeners - 1
    ELSE s.upListeners

\* what handleMessage recognises in a line
LineKind(line) ==
    IF line = UCIOK THEN "uciok"
    ELSE IF line # <<>> /\ StartsWith(line, BESTMOVE) THEN "bestmove"
    ELSE "other"

\* ------------------------------------------------------------------ Init
\* the state after new ChessApp(): EngineManager.init() has either
\* constructed the worker or caught the failure and switched
Constructed ==
    [engine |-> "worker", isWorker |-> TRUE, isReady |-> FALSE,
     status |-> "Initializing Engine...", readyTimer |-> TRUE, polls |-> <<>>,
     winListeners |-> 0, moduleKind |-> "none", switchCount |-> 0,
     readyCalls |-> 0, level |-> "1", game |-> NewChess, isThinking |-> FALSE,
     selectedSquare |-> NoSquare, isDragging |-> FALSE,
     dragStartSquare |-> NoSquare, upListeners |-> 0, newestLive |-> FALSE,
     randTimers |-> 0,
     sent |-> <<[cmd |-> Cmd("uci"), via |-> "worker"]>>, dropped |-> <<>>,
     submitted |-> 0]

ConstructionFailed ==
    SwitchToMainThread(
        [Constructed EXCEPT !.engine = "null", !.isWorker = FALSE,
                            !.readyTimer = FALSE, !.sent = <<>>])

InitFrom(s, created) ==
    /\ engine = s.engine
    /\ isWorker = s.isWorker
    /\ isReady = s.isReady
    /\ status = s.status
    /\ readyTimer = s.readyTimer
    /\ polls = s.polls
    /\ winListeners = s.winListeners
    /\ moduleKind = s.moduleKind
    /\ switchCount = s.switchCount
    /\ readyCalls = s.readyCalls
    /\ game = s.game
    /\ isThinking = s.isThinking
    /\ selectedSquare = s.selectedSquare
    /\ isDragging = s.isDragging
    /\ dragStartSquare = s.dragStartSquare
    /\ upListeners = s.upListeners
    /\ newestLive = s.newestLive
    /\ randTimers = s.randTimers
    /\ sent = s.sent
    /\ dropped = s.dropped
    /\ submitted = s.submitted
    /\ workerCreated = created
    /\ workerErrors = 0
    /\ ev = [op |-> "constructor", arg |-> "", thinking |-> FALSE,
             ready |-> FALSE]

Init == InitFrom(Constructed, TRUE) \/ InitFrom(ConstructionFailed, FALSE)

\* --------------------------------------------------------------- actions
\* the worker posts a line: engine.onmessage
WorkerMessage ==
    /\ engine = "worker"
    /\ \E line \in Lines(game) :
           Set(HandleMessage(Cur, line), <<"handleMessage", LineKind(line)>>)
    /\ UNCHANGED <<workerCreated, workerErrors>>

\* a window 'message' event with string data: every registered listener runs
WindowMessage ==
    /\ winListeners > 0
    /\ \E line \in Lines(game) :
           Set(DispatchMessage(winListeners, Cur, line),
               <<"handleMessage", LineKind(line)>>)
    /\ UNCHANGED <<workerCreated, workerErrors>>

\* the live worker's error event: engine.onerror
WorkerError ==
    /\ engine = "worker"
    /\ workerErrors' = workerErrors
    /\ Set(SwitchToMainThread(Cur), <<"onerror", "">>)
    /\ UNCHANGED workerCreated

\* an error event the worker raised before it was terminated, delivered to
\* engine.onerror afterwards (terminate() does not cancel it)
LateWorkerError ==
    /\ workerCreated
    /\ engine # "worker"
    /\ workerErrors < MaxLateErrors
    /\ workerErrors' = workerErrors + 1
    /\ Set(SwitchToMainThread(Cur), <<"onerror", "">>)
    /\ UNCHANGED workerCreated

\* the 2000 ms safety timeout fires
ReadyTimerFires ==
    /\ readyTimer
    /\ Set(ReadyTimeout(Cur), <<"readyTimeout", "">>)
    /\ UNCHANGED <<workerCreated, workerErrors>>

\* one 500 ms tick of a running module poll
PollTick ==
    /\ \E i \in 1..Len(polls) : Set(PollCallback(Cur, i), <<"poll", "">>)
    /\ UNCHANGED <<workerCreated, workerErrors>>

\* a tick of a running module poll with the ticks that only count elided:
\* the tick that finds the module, or the one that exhausts the budget
PollFinalTick ==
    /\ \E i \in 1..Len(polls) :
           Set(PollCallback([Cur EXCEPT !.polls[i] = MaxAttempts], i),
               <<"poll", "">>)
    /\ UNCHANGED <<workerCreated, workerErrors>>

\* the page finishes loading an in-process engine script
LoadModule ==
    /\ moduleKind = "none"
    /\ \E k \in ModuleKinds :
           Set([Cur EXCEPT !.moduleKind = k], <<"loadModule", "">>)
    /\ UNCHANGED <<workerCreated, workerErrors>>

\* click on the new-game button
ClickNewGame ==
    /\ Set(NewGame(Cur), <<"newGame", "">>)
    /\ UNCHANGED <<workerCreated, workerErrors>>

\* click on the undo button
ClickUndo ==
    /\ Set(UndoMove(Cur), <<"undoMove", "">>)
    /\ UNCHANGED <<workerCreated, workerErrors>>

\* pointerdown on a board square
PointerDown ==
    /\ \E sq \in Squares :
       \E lv \in LevelValues :
           Set(HandlePointerDown(State(lv), sq), <<"pointerDown", "">>)
    /\ UNCHANGED <<workerCreated, workerErrors>>

\* pointerup anywhere in the document while a drag listener is registered
PointerUp ==
    /\ upListeners > 0
    /\ \E target \in Squares \cup {NoSquare} :
       \E lv \in LevelValues :
           Set(DispatchPointerUp(UpInvocations(Cur), State(lv), target),
               <<"pointerUp", "">>)
    /\ UNCHANGED <<workerCreated, workerErrors>>

\* a 1000 ms random-move timer fires
RandomTimerFires ==
    /\ randTimers > 0
    /\ LET s == [Cur EXCEPT !.randTimers = @ - 1]
       IN  \/ /\ Moves(game) = {}
              /\ Set(MakeRandomMove(s, <<>>), <<"makeRandomMove", "">>)
           \/ \E mk \in Moves(game) :
                  Set(MakeRandomMove(s, mk), <<"makeRandomMove", "">>)
    /\ UNCHANGED <<workerCreated, workerErrors>>

\* the adapter with the user at the buttons only
NextAdapter ==
    \/ WorkerMessage
    \/ WindowMessage
    \/ WorkerError
    \/ LateWorkerError
    \/ ReadyTimerFires
    \/ PollTick
    \/ LoadModule
    \/ ClickNewGame
    \/ ClickUndo

SpecAdapter == Init /\ [][NextAdapter]_vars

\* the whole application, with the counting ticks of the module poll elided
\* and worker errors delivered while the worker lives
Next ==
    \/ WorkerMessage
    \/ WindowMessage
    \/ WorkerError
    \/ ReadyTimerFires
    \/ PollFinalTick
    \/ LoadModule
    \/ ClickNewGame
    \/ ClickUndo
    \/ PointerDown
    \/ PointerUp
    \/ RandomTimerFires

Spec == Init /\ [][Next]_vars


\* the engine side of a channel that can still deliver lines answers while
\* the orchestrator waits for a reply
EngineReplies ==
    /\ isThinking
    /\ WorkerMessage \/ WindowMessage
    /\ ev'.op = "handleMessage" /\ ev'.arg = "bestmove"

\* the whole application with its timers firing and a live engine replying
Fairness ==
    /\ WF_vars(RandomTimerFires)
    /\ WF_vars(ReadyTimerFires)
    /\ WF_vars(PollFinalTick)
    /\ WF_vars(EngineReplies)

SpecLive == Init /\ [][Next]_vars /\ Fairness


\* ---------------------------------------------------------------- claims
BestmoveStep(e) == e.op = "handleMessage" /\ e.arg = "bestmove"

\* the go commands among the commands a step delivered
GoCount(q) == Cardinality({i \in DOMAIN q : q[i].cmd.name = "go depth"})

\* C1: a bestmove line handled while isThinking is false leaves the game
\* (board and side to move) and isThinking as they were, whatever its payload
C1_StaleReplyRejected ==
    [][(BestmoveStep(ev') /\ ~isThinking)
           => (game' = game /\ isThinking' = isThinking /\ submitted' = 0)]_vars

\* a bestmove line has been handled while idle in a position other than the
\* starting one
C1_Witness ==
    BestmoveStep(ev) /\ ~ev.thinking /\ game.history # <<>> /\ game.turn = "w"

C4_SingleOutstandingSearch ==
    GoCount(sent) <= 1 /\ (GoCount(sent) = 1 => ~ev.thinking)

\* a go command was delivered by a pointerup that ran a leaked listener
C4_Witness ==
    ev.op = "pointerUp" /\ GoCount(sent) = 1 /\ upListeners > 0


UciokStep(e) == e.op = "handleMessage" /\ e.arg = "uciok"

\* C5: onReadyCallback has run once exactly when isReady holds, isReady never
\* becomes false again, and it holds after every uciok line
C5_IdempotentReadiness ==
    /\ [](readyCalls = IF isReady THEN 1 ELSE 0)
    /\ [][isReady => isReady']_vars
    /\ [][UciokStep(ev') => (isReady' /\ readyCalls' = 1)]_vars

\* a uciok line was handled when the engine was ready already, after a fallback
C5_Witness ==
    UciokStep(ev) /\ ev.ready /\ readyCalls = 1 /\ switchCount > 0

\* C6 as claimed: switchToMainThread runs at most once, and a worker error
\* that arrives after readiness or after a fallback has begun changes nothing
C6_FirstEventWins ==
    /\ [](switchCount <= 1)
    /\ [][(ev'.op = "onerror" /\ (isReady \/ switchCount > 0))
              => (switchCount' = switchCount /\ polls' = polls
                      /\ isWorker' = isWorker /\ engine' = engine)]_vars

\* the engine mode of the specification, read off the adapter's fields
FailedStatus == "Engine Load Failed (Random Moves Only)"

ModeOf(worker, ready, text) ==
    IF worker THEN (IF ready THEN "Concurrent-Ready" ELSE "Concurrent-Pending")
    ELSE IF ready THEN "InProcess-Ready"
    ELSE IF text = FailedStatus THEN "Unavailable"
    ELSE "InProcess-Pending"

AllowedModeSteps ==
    {<<"Concurrent-Pending", "InProcess-Pending">>,
     <<"InProcess-Pending", "Unavailable">>,
     <<"Concurrent-Pending", "Concurrent-Ready">>,
     <<"InProcess-Pending", "InProcess-Ready">>}

\* C7 as claimed: the engine mode changes only along the allowed transitions
C7_FallbackMonotonic ==
    [][LET from == ModeOf(isWorker, isReady, status)
           to == ModeOf(isWorker', isReady', status')
       IN  from = to \/ <<from, to>> \in AllowedModeSteps]_vars

\* a module poll has exhausted its retry budget: every switchToMainThread
\* starts one poll, and a poll ends by initMainThread or by giving up
Exhausted == switchCount > Len(polls) + winListeners

\* C8 as claimed: once a poll has given up, isReady is false and no step
\* delivers a command to an engine channel
C8_UnavailableTerminal ==
    Exhausted => (~isReady /\ sent = <<>>)

\* C9: a step that began with isReady false delivers no command but uci, and
\* handling a line (uciok included) delivers nothing: dropped commands are
\* not replayed
C9_DropOnNotReady ==
    /\ ~ev.ready => \A i \in DOMAIN sent : sent[i].cmd.name = "uci"
    /\ ev.op = "handleMessage" => sent = <<>>

\* newGame ran with a live worker that had not signalled readiness: stop and
\* ucinewgame were both dropped
C9_Witness ==
    /\ ev.op = "newGame" /\ ~ev.ready /\ engine = "worker"
    /\ Len(dropped) = 2 /\ dropped[1].why = "not ready" /\ sent = <<>>

PointerStep(e) == e.op \in {"pointerDown", "pointerUp"}

\* an engine turn begins while the adapter is not ready: nothing is sent, the
\* random-move timer is armed and isThinking is set
DegradeArms ==
    [][(PointerStep(ev') /\ game' # game /\ ~GameOver(game') /\ ~isReady)
           => (sent' = <<>> /\ isThinking' /\ randTimers' = randTimers + 1)]_vars

C11_NoMoveWhileThinking ==
    [][(PointerStep(ev') /\ isThinking)
           => (submitted' = 0 /\ game' = game /\ isThinking')]_vars

\* the commands of a sequence of sendCommand calls
CmdsOf(q) == [i \in DOMAIN q |-> q[i].cmd]

\* the depths the difficulty selector can yield
Depths ==
    {IF ParseInt(lv).nan \/ ParseInt(lv).val = 0 THEN DefaultDepth
     ELSE ParseInt(lv).val : lv \in LevelValues}

\* the two commands of an engine turn that begins in position g
TurnCmds(g) ==
    {<<PositionCmd(Fen(g)), GoCmd(d, TimeLimit)>> : d \in Depths}

\* C12: a human move made while the adapter is ready that does not end the
\* game passes to sendCommand exactly the position command with the new
\* position and then the go command with movetime 2500, and sets isThinking;
\* a bestmove line handled while isThinking is true clears isThinking and
\* applies at most one legal move, and a line carrying a legal move's token
\* applies that move
C12_ScenarioB ==
    /\ [][(PointerStep(ev') /\ game' # game /\ ~GameOver(game') /\ isReady)
              => /\ isThinking'
                 /\ CmdsOf(sent' \o dropped') \in TurnCmds(game')
                 /\ sent' = <<>> \/ dropped' = <<>>]_vars
    /\ [][(BestmoveStep(ev') /\ isThinking)
              => /\ ~isThinking'
                 /\ game' = game \/ \E m \in Moves(game) : game' = Apply(game, m)]_vars
    /\ [](isThinking =>
              \A m \in Moves(game) :
                  LET s == HandleMessage(Cur, BESTMOVE \o SP \o Token(m))
                  IN  s.game = Apply(game, m) /\ ~s.isThinking /\ s.submitted = 1)

\* the reply to a search the engine received has been applied: the human
\* moved with the adapter ready, the engine's move followed
C12_Witness ==
    /\ BestmoveStep(ev) /\ ev.thinking /\ ev.ready /\ submitted = 1
    /\ game.turn = "w" /\ Len(game.history) = 2 /\ randTimers = 0

\* the commands of the given name among those of a sequence of sendCommand calls
Named(q, n) == {i \in DOMAIN q : q[i].cmd.name = n}

\* C13 as claimed: isThinking is true exactly while a go command has been
\* delivered and neither a reply (a bestmove line) nor a cancellation (a
\* delivered stop) has been processed since: a step that delivers a go sets
\* it, a step that processes a reply or a cancellation clears it, and no other
\* step changes it
C13_ThinkingIffSearchOutstanding ==
    [][IF GoCount(sent') > 0 THEN isThinking'
       ELSE IF BestmoveStep(ev') \/ Named(sent', "stop") # {} THEN ~isThinking'
       ELSE isThinking' = isThinking]_vars

\* C13 amended: isThinking becomes true exactly in a pointer step whose human
\* move starts an engine turn, in which the go command is delivered, or the
\* random-move timer is armed (adapter not ready), or the go command is lost
\* (adapter ready, no channel); it becomes false only when a bestmove line is
\* handled or a random-move timer fires; a go command is delivered only in a
\* step that sets isThinking
C13_ThinkingIffEngineTurn ==
    /\ [][(PointerStep(ev') /\ game' # game /\ ~GameOver(game')) => isThinking']_vars
    /\ [][(isThinking' /\ ~isThinking)
              => /\ PointerStep(ev') /\ game' # game
                 /\ \/ GoCount(sent') = 1
                    \/ ~isReady /\ randTimers' = randTimers + 1
                    \/ isReady /\ Named(dropped', "go depth") # {}]_vars
    /\ [][(isThinking /\ ~isThinking')
              => (BestmoveStep(ev') \/ ev'.op = "makeRandomMove")]_vars
    /\ [][GoCount(sent') > 0 => (isThinking' /\ ~isThinking)]_vars

\* an engine turn has begun with the adapter not ready: isThinking is true, no
\* command was delivered and the random-move timer is pending
C13_Witness ==
    /\ PointerStep(ev) /\ ~ev.thinking /\ ~ev.ready /\ isThinking
    /\ sent = <<>> /\ randTimers = 1 /\ game.turn = "b"

\* a move token of the engine protocol: four or five characters, or the
\* no-move sentinel
MoveToken(x) == x = NONE \/ (x # Undefined /\ Len(x) \in {4, 5})

\* a line that is neither exactly uciok nor the token bestmove followed by a
\* space and a move token
Unrecognized(line) ==
    /\ line # UCIOK
    /\ ~(StartsWith(line, BESTMOVE \o SP) /\ MoveToken(SplitSecond(line)))

\* C14 as claimed: handling an unrecognized line invokes no callback and
\* changes neither the adapter (isReady, isWorker, engine, status) nor the
\* orchestrator (game, isThinking)
C14_UnrecognizedIgnored ==
    \A line \in Lines(game) :
        Unrecognized(line) =>
            LET s == HandleMessage(Cur, line)
            IN  /\ LineKind(line) = "other"
                /\ s.isReady = isReady /\ s.isWorker = isWorker
                /\ s.engine = engine /\ s.status = status
                /\ s.readyCalls = readyCalls
                /\ s.game = game /\ s.isThinking = isThinking
                /\ s.submitted = 0

\* the fields a handler may change, outputs of the step aside
Kept(s, t) ==
    /\ s.game = t.game /\ s.isThinking = t.isThinking
    /\ s.randTimers = t.randTimers /\ s.sent = t.sent /\ s.dropped = t.dropped

\* C15: tryMove with a move the rules engine rejects changes neither the game
\* nor isThinking and passes no command to sendCommand, a pointer step that
\* leaves the game as it was does the same, and handling a bestmove line whose
\* move the rules engine rejects leaves the game as it was
C15_RejectedMoveKeepsState ==
    /\ [](\A from \in Squares \cup {NoSquare} : \A to \in Squares :
              ~TryMoveOk(Cur, from, to) => Kept(TryMove(Cur, from, to), Cur))
    /\ [][(PointerStep(ev') /\ game' = game)
              => (isThinking' = isThinking /\ sent' = <<>> /\ dropped' = <<>>
                      /\ randTimers' = randTimers)]_vars
    /\ [](\A x \in Tokens(game) \ {NONE} :
              Matching(game, Substring(x, 0, 2), Substring(x, 2, 4),
                       Substring(x, 4, 5)) = {}
                  => HandleMessage(Cur, BESTMOVE \o SP \o x).game = game)

\* a click on a second square has passed a move to the rules engine, which
\* rejected it: the game goes on with isThinking false
C15_Witness ==
    /\ ev.op = "pointerDown" /\ ~ev.thinking /\ submitted = 1
    /\ ~isThinking /\ ~GameOver(game) /\ game.history # <<>>

\* the characters of the move tokens decoded
TokenChars == {"a", "e", "2", "7", "q"}

\* the tokens of the given length over TokenChars
TokensOfLen(n) == [1..n -> TokenChars]

\* every four-character token decodes to its characters 1-2 and 3-4 and no
\* promotion piece
DecodeFour ==
    \A x \in TokensOfLen(4) :
        Decode(x) = [from |-> <<x[1], x[2]>>, to |-> <<x[3], x[4]>>,
                     promotion |-> <<>>]

\* every five-character token decodes to those and its character 5
DecodeFive ==
    \A x \in TokensOfLen(5) :
        Decode(x) = [from |-> <<x[1], x[2]>>, to |-> <<x[3], x[4]>>,
                     promotion |-> <<x[5]>>]

\* C16: a four-character token decodes to its characters 1-2 and 3-4 and no
\* promotion piece, a five-character token to those and its character 5; the
\* token (none) handled while isThinking is true clears isThinking, submits no
\* move to the rules engine and leaves the game as it was
C16_MoveDecoding ==
    /\ DecodeFour
    /\ DecodeFive
    /\ Decode(<<"e", "2", "e", "4">>)
           = [from |-> <<"e", "2">>, to |-> <<"e", "4">>, promotion |-> <<>>]
    /\ Decode(<<"e", "7", "e", "8", "q">>)
           = [from |-> <<"e", "7">>, to |-> <<"e", "8">>, promotion |-> <<"q">>]
    /\ isThinking =>
           LET s == HandleMessage(Cur, BESTMOVE \o SP \o NONE)
           IN  ~s.isThinking /\ s.game = game /\ s.submitted = 0

\* a reply without a move was handled during a search the engine received:
\* isThinking is cleared, nothing was passed to the rules engine
C16_Witness ==
    /\ BestmoveStep(ev) /\ ev.thinking /\ ev.ready /\ ~isThinking
    /\ submitted = 0 /\ game.turn = "b" /\ ~GameOver(game)

\* C17 as claimed: with timers firing and a live engine replying, isThinking
\* never stays true forever (stated for the engine turns whose reply fits
\* within the number of half-moves explored)
C17_NoPermanentLock ==
    (isThinking /\ Len(game.history) < MaxPlies) ~> ~isThinking

\* C18 as claimed: whenever isThinking is false and the game is not over, the
\* human side is to move
C18_IdleMeansHumanToMove ==
    (~isThinking /\ ~GameOver(game)) => game.turn = playerColor

\* C19 as claimed: a move applied by handleAiMove or by makeRandomMove is
\* applied with the non-human side to move
C19_EngineMovesOnEngineTurn ==
    [][((BestmoveStep(ev') \/ ev'.op = "makeRandomMove") /\ game' # game)
           => game.turn # playerColor]_vars

\* C20: isWorker implies that engine is a live worker handle, and no command
\* a step delivered went to a null or terminated handle
C20_ChannelValid ==
    /\ isWorker => engine = "worker"
    /\ \A i \in DOMAIN sent : sent[i].via # "null"

\* a constructed worker has been torn down and newGame's two commands were
\* delivered to the in-process engine
C20_Witness ==
    /\ ev.op = "newGame" /\ Len(sent) = 2 /\ sent[1].via # "worker"
    /\ workerCreated /\ switchCount > 0 /\ engine = "null" /\ ~isWorker

====
